---- MODULE Spec2Model ----
(***************************************************************************)
(* A model of SpamDetector.py: the multinomial naive-Bayes trainer         *)
(* (train), the log-space scorer (predict), the evaluator (test), the      *)
(* correlation filter (remove_correlated) and the module-level script that *)
(* splits the data, builds five folds and trains/evaluates once per fold.  *)
(*                                                                         *)
(* Arithmetic is exact.  A probability is a pair [num, den] of integers    *)
(* (the smoothing constant 0.09 is 9/100, a threshold 0.608 is 76/125);    *)
(* the comparison of two log-scores is decided on the products whose       *)
(* logarithms they are (log is strictly increasing, log 0 = -inf), with    *)
(* arbitrary-precision naturals; |corr| > t is decided on the squares.     *)
(* Floating-point rounding is not modelled.                                *)
(*                                                                         *)
(* Three specifications share the variables:                               *)
(*   SpecFilter  remove_correlated applied to a DataFrame, and again       *)
(*   SpecModel   train on one fold, then predict on one e-mail             *)
(*   SpecDriver  the script from the split (line 131) to the last print    *)
(***************************************************************************)
EXTENDS Integers, Sequences, FiniteSets, TLC

VARIABLES pc, error, data, threshold, filtered, refiltered, laplace_alpha,
          training_data, testing_data, fold_size, folds, starting_i, i,
          model, email, prediction, output

vars == <<pc, error, data, threshold, filtered, refiltered, laplace_alpha,
          training_data, testing_data, fold_size, folds, starting_i, i,
          model, email, prediction, output>>

(***************************************************************************)
(* Bounds of the explored inputs.                                          *)
(***************************************************************************)
\* rows of a DataFrame given to remove_correlated
MaxFilterRows == 4
\* rows of a fold given to train in SpecModel
MaxFoldRows == 2
\* largest feature value (a frequency) in SpecFilter and SpecModel
MaxVal == 1
\* rows of the shuffled data set in SpecDriver
MaxRows == 13

(***************************************************************************)
(* Sequences and sums.                                                     *)
(***************************************************************************)
RECURSIVE SumSeq(_)
SumSeq(s) == IF s = <<>> THEN 0 ELSE Head(s) + SumSeq(Tail(s))

Range(s) == {s[k] : k \in DOMAIN s}

Min(a, b) == IF a < b THEN a ELSE b

(***************************************************************************)
(* Natural numbers of any size: little-endian digits in base 1000, no      *)
(* leading zero digit, << >> is 0.  Used only to compare two scores.       *)
(***************************************************************************)
RECURSIVE BigMulCarry(_, _, _)
BigMulCarry(x, k, carry) ==
    IF x = <<>>
    THEN IF carry = 0 THEN <<>>
         ELSE <<carry % 1000>> \o BigMulCarry(<<>>, k, carry \div 1000)
    ELSE LET v == Head(x) * k + carry
         IN  <<v % 1000>> \o BigMulCarry(Tail(x), k, v \div 1000)

BigMul(x, k) == IF k = 0 THEN <<>> ELSE BigMulCarry(x, k, 0)

RECURSIVE BigMulPow(_, _, _)
BigMulPow(x, k, e) == IF e = 0 THEN x ELSE BigMulPow(BigMul(x, k), k, e - 1)

BigOfNat(n) == BigMul(<<1>>, n)

RECURSIVE BigGreaterFrom(_, _, _)
BigGreaterFrom(x, y, k) ==
    IF k = 0 THEN FALSE
    ELSE IF x[k] # y[k] THEN x[k] > y[k]
    ELSE BigGreaterFrom(x, y, k - 1)

BigGreater(x, y) ==
    IF Len(x) # Len(y) THEN Len(x) > Len(y) ELSE BigGreaterFrom(x, y, Len(x))

(***************************************************************************)
(* A DataFrame: its ordered column names, its index labels and its rows,   *)
(* each row a function from column name to value.                          *)
(***************************************************************************)
NoData == [columns |-> <<>>, index |-> <<>>, rows |-> <<>>]

\* len(df)
DfLen(df) == Len(df.rows)

\* df[a:b], a Python slice by position (0-based, end exclusive, clipped)
Slice(df, a, b) ==
    LET lo == Min(a, DfLen(df)) + 1
        hi == Min(b, DfLen(df))
    IN  [columns |-> df.columns,
         index   |-> SubSeq(df.index, lo, hi),
         rows    |-> SubSeq(df.rows, lo, hi)]

\* df[df[c] == v], a boolean-mask selection
WhereEq(df, c, v) ==
    LET keep == SelectSeq([k \in 1..DfLen(df) |-> k], LAMBDA k : df.rows[k][c] = v)
    IN  [columns |-> df.columns,
         index   |-> [j \in 1..Len(keep) |-> df.index[keep[j]]],
         rows    |-> [j \in 1..Len(keep) |-> df.rows[keep[j]]]]

\* df.drop(columns=S)
DropColumns(df, S) ==
    LET kept == SelectSeq(df.columns, LAMBDA c : c \notin S)
    IN  [columns |-> kept,
         index   |-> df.index,
         rows    |-> [k \in 1..DfLen(df) |-> [c \in Range(kept) |-> df.rows[k][c]]]]

\* df[c].sum()
RECURSIVE SumRows(_, _, _)
SumRows(rows, c, n) == IF n = 0 THEN 0 ELSE rows[n][c] + SumRows(rows, c, n - 1)

ColumnSum(df, c) == SumRows(df.rows, c, DfLen(df))

\* (df[a] * df[b]).sum()
RECURSIVE SumProducts(_, _, _, _)
SumProducts(rows, a, b, n) ==
    IF n = 0 THEN 0 ELSE rows[n][a] * rows[n][b] + SumProducts(rows, a, b, n - 1)

ProductSum(df, a, b) == SumProducts(df.rows, a, b, DfLen(df))

(***************************************************************************)
(* Pearson correlation, as DataFrame.corr() defines it, decided exactly.   *)
(* With n rows, n*Sxy - Sx*Sy is n^2 times the covariance; the correlation *)
(* of two columns is NaN when either has zero variance (or n < 2), and     *)
(* NaN > t is False.  For t = num/den >= 0, |r| > t iff r^2 > t^2.         *)
(***************************************************************************)
ScaledCov(df, a, b) ==
    DfLen(df) * ProductSum(df, a, b) - ColumnSum(df, a) * ColumnSum(df, b)

CorrDefined(df, a, b) == ScaledCov(df, a, a) > 0 /\ ScaledCov(df, b, b) > 0

\* data.corr().abs().loc[a, b] > t
AbsCorrGreater(df, a, b, t) ==
    /\ CorrDefined(df, a, b)
    /\ t.den * t.den * ScaledCov(df, a, b) * ScaledCov(df, a, b)
         > t.num * t.num * ScaledCov(df, a, a) * ScaledCov(df, b, b)

(***************************************************************************)
(* remove_correlated (lines 102-120).  Positions are 1-based here.         *)
(***************************************************************************)
ComparedAdjacentOnly(a) == IF a > 1 THEN {a - 1} ELSE {}

\* for j in range(i): the positions column a is compared with
ComparedColumns(a) == 1..(a - 1)

MarkedLower(cols, a, b) == cols[b]

\* attribute = matrix.columns[i]: the column marked for the pair (a, b), b < a
MarkedColumn(cols, a, b) == cols[a]

correlated_features(df, t) ==
    LET cols  == df.columns
        pairs == {p \in (DOMAIN cols) \X (DOMAIN cols) :
                    /\ p[2] \in ComparedColumns(p[1])
                    /\ AbsCorrGreater(df, cols[p[1]], cols[p[2]], t)}
    IN  {MarkedColumn(cols, p[1], p[2]) : p \in pairs}

remove_correlated(df, t) == DropColumns(df, correlated_features(df, t))

(***************************************************************************)
(* Inputs of SpecFilter: DataFrames with two feature columns and the label *)
(* column 'spam' last, of at most MaxFilterRows rows.  Correlation does    *)
(* not depend on the order of the rows, so the rows are drawn in           *)
(* non-decreasing order of RowCode, one DataFrame per multiset of rows.    *)
(***************************************************************************)
Columns == <<"w1", "w2", "spam">>

FeatureRows == [w1 : 0..MaxVal, w2 : 0..MaxVal, spam : 0..1]

RowCode(r) == (r.w1 * (MaxVal + 1) + r.w2) * 2 + r.spam

RECURSIVE SortedRows(_)
SortedRows(n) ==
    IF n = 0 THEN {<<>>}
    ELSE {Append(p[1], p[2]) :
            p \in {q \in SortedRows(n - 1) \X FeatureRows :
                     q[1] = <<>> \/ RowCode(q[1][Len(q[1])]) <= RowCode(q[2])}}

\* pd.read_csv / reset_index(drop=True): index labels 0..n-1
MakeData(cols, rows) ==
    [columns |-> cols, index |-> [k \in 1..Len(rows) |-> k - 1], rows |-> rows]

FilterInputs ==
    {MakeData(Columns, s) : s \in UNION {SortedRows(n) : n \in 0..MaxFilterRows}}

\* 0.5, 0.608 (line 125) and 0.99, each as a fraction
Thresholds == {[num |-> 1, den |-> 2], [num |-> 76, den |-> 125], [num |-> 99, den |-> 100]}

\* laplace_alpha = .09 (line 129)
Alpha == [num |-> 9, den |-> 100]

NoModel == [error |-> "unset"]

InitFilter ==
    /\ pc = "loaded"
    /\ error = "none"
    /\ data \in FilterInputs
    /\ threshold \in Thresholds
    /\ filtered = NoData
    /\ refiltered = NoData
    /\ laplace_alpha = Alpha
    /\ training_data = NoData
    /\ testing_data = NoData
    /\ fold_size = 0
    /\ folds = <<>>
    /\ starting_i = 0
    /\ i = 0
    /\ model = NoModel
    /\ email = <<>>
    /\ prediction = FALSE
    /\ output = <<>>

\* data = remove_correlated(data, threshold=...)  (line 125)
RemoveCorrelated ==
    /\ pc = "loaded"
    /\ filtered' = remove_correlated(data, threshold)
    /\ pc' = "filtered"
    /\ UNCHANGED <<error, data, threshold, refiltered, laplace_alpha, training_data,
                   testing_data, fold_size, folds, starting_i, i, model, email,
                   prediction, output>>

\* remove_correlated applied to its own result with the same threshold
RemoveCorrelatedAgain ==
    /\ pc = "filtered"
    /\ refiltered' = remove_correlated(filtered, threshold)
    /\ pc' = "refiltered"
    /\ UNCHANGED <<error, data, threshold, filtered, laplace_alpha, training_data,
                   testing_data, fold_size, folds, starting_i, i, model, email,
                   prediction, output>>

NextFilter == RemoveCorrelated \/ RemoveCorrelatedAgain

SpecFilter == InitFilter /\ [][NextFilter]_vars

(***************************************************************************)
(* Claims about remove_correlated, checked under SpecFilter.               *)
(***************************************************************************)
Position(cols, c) == CHOOSE k \in DOMAIN cols : cols[k] = c

Removed(c) == c \in Range(data.columns) /\ c \notin Range(filtered.columns)

\* some column to the left of c has a defined |correlation| with c above t
CorrelatedWithEarlier(c) ==
    \E b \in Range(data.columns) :
        /\ Position(data.columns, b) < Position(data.columns, c)
        /\ AbsCorrGreater(data, c, b, threshold)

IdenticalColumns(a, b) == \A k \in 1..DfLen(data) : data.rows[k][a] = data.rows[k][b]

\* the rule of removal: a column goes exactly when an earlier column is
\* correlated with it above the threshold; the rows are otherwise unchanged
RemovalRule ==
    /\ \A c \in Range(data.columns) : Removed(c) <=> CorrelatedWithEarlier(c)
    /\ filtered = DropColumns(data, {c \in Range(data.columns) : Removed(c)})

\* C5 as stated: the rule of removal, and of two identical features (of a
\* DataFrame of two rows or more) at threshold 0.99 exactly the
\* higher-indexed one ("w2") is removed.
C5_Original ==
    pc # "loaded" =>
        /\ RemovalRule
        /\ (/\ threshold = [num |-> 99, den |-> 100]
            /\ DfLen(data) >= 2
            /\ IdenticalColumns("w1", "w2"))
               => (Removed("w2") /\ ~Removed("w1"))

\* C5, amended: the rule of removal, and of two identical features of
\* non-zero variance at threshold 0.99 exactly the higher-indexed one is
\* removed; two identical constant features have an undefined correlation and
\* both stay.
C5_RemovalRule ==
    pc # "loaded" =>
        /\ RemovalRule
        /\ (threshold = [num |-> 99, den |-> 100] /\ IdenticalColumns("w1", "w2"))
               => /\ ~Removed("w1")
                  /\ Removed("w2") <=> ScaledCov(data, "w1", "w1") > 0

C5_Witness ==
    /\ pc = "filtered"
    /\ threshold = [num |-> 99, den |-> 100]
    /\ IdenticalColumns("w1", "w2")
    /\ ScaledCov(data, "w1", "w1") > 0
    /\ Removed("w2")
    /\ ~CorrDefined(data, "spam", "w1")

\* C6: filtering the filtered DataFrame again with the same threshold gives
\* the same DataFrame, and no two surviving columns are correlated above it.
C6_Idempotent ==
    pc = "refiltered" =>
        /\ refiltered = filtered
        /\ \A a, b \in Range(filtered.columns) :
               a # b => ~AbsCorrGreater(filtered, a, b, threshold)

C6_Witness ==
    /\ pc = "refiltered"
    /\ Len(filtered.columns) = 2
    /\ \E a, b \in Range(data.columns) :
           /\ a # b
           /\ Removed(a)
           /\ ~Removed(b)
           /\ AbsCorrGreater(data, a, b, threshold)

\* C10: the filtered DataFrame still has the label column 'spam'.
C10_LabelKept == pc # "loaded" => "spam" \in Range(filtered.columns)

(***************************************************************************)
(* train (lines 13-38).  The result is a record: error is "none" and the   *)
(* four returned values follow, or error names the exception raised.       *)
(* A prior and a conditional probability are fractions [num, den].         *)
(***************************************************************************)
WordProbUnsmoothed(word_sum, total, alpha, nfeatures) ==
    [num |-> alpha.den * word_sum,
     den |-> alpha.den * total + alpha.num * nfeatures]

\* (word_sum + laplace_alpha) / (total + laplace_alpha * len(features))
WordProb(word_sum, total, alpha, nfeatures) ==
    [num |-> alpha.den * word_sum + alpha.num,
     den |-> alpha.den * total + alpha.num * nfeatures]

train(train_data, alpha) ==
    IF "spam" \notin Range(train_data.columns) THEN [error |-> "KeyError"]
    ELSE IF DfLen(train_data) = 0 THEN [error |-> "ZeroDivisionError"]
    ELSE
    LET spam     == WhereEq(train_data, "spam", 1)
        non_spam == WhereEq(train_data, "spam", 0)
        features == SubSeq(train_data.columns, 1, Len(train_data.columns) - 1)
        spam_word_sum     == [f \in Range(features) |-> ColumnSum(spam, f)]
        non_spam_word_sum == [f \in Range(features) |-> ColumnSum(non_spam, f)]
        total_spam_word_sum ==
            SumSeq([k \in 1..Len(features) |-> spam_word_sum[features[k]]])
        total_non_spam_word_sum ==
            SumSeq([k \in 1..Len(features) |-> non_spam_word_sum[features[k]]])
    IN  [error               |-> "none",
         prior_spam          |-> [num |-> DfLen(spam), den |-> DfLen(train_data)],
         prior_non_spam      |-> [num |-> DfLen(non_spam), den |-> DfLen(train_data)],
         words_spam_prob     |->
             [f \in Range(features) |->
                 WordProb(spam_word_sum[f], total_spam_word_sum, alpha, Len(features))],
         words_non_spam_prob |->
             [f \in Range(features) |->
                 WordProb(non_spam_word_sum[f], total_non_spam_word_sum, alpha,
                          Len(features))]]

(***************************************************************************)
(* predict (lines 41-57).  exp(spam_prob) is prior_spam times the product  *)
(* of words_spam_prob[word]^freq over the words of the e-mail that the     *)
(* mapping holds; spam_prob > non_spam_prob is decided by cross-multiplying *)
(* the two fractions (every denominator is positive).  A prior of 0 gives  *)
(* log 0 = -inf, here a product 0.  Frequencies are natural numbers.       *)
(***************************************************************************)
RECURSIVE ScaleBy(_, _, _, _, _)
ScaleBy(acc, words, mail, probs, part) ==
    IF words = {} THEN acc
    ELSE LET w == CHOOSE x \in words : TRUE
         IN  ScaleBy(BigMulPow(acc, probs[w][part], mail[w]),
                     words \ {w}, mail, probs, part)

\* if word in words_prob
KnownWords(mail, probs) == DOMAIN mail \cap DOMAIN probs

ScoreGreaterOrEqual(l, r) == ~BigGreater(r, l)

\* spam_prob > non_spam_prob, on the cross-multiplied products
ScoreGreater(l, r) == BigGreater(l, r)

predict(mail, prior_spam, prior_non_spam, words_spam_prob, words_non_spam_prob) ==
    LET ws == KnownWords(mail, words_spam_prob)
        wn == KnownWords(mail, words_non_spam_prob)
        l  == ScaleBy(ScaleBy(BigOfNat(prior_spam.num * prior_non_spam.den),
                              ws, mail, words_spam_prob, "num"),
                      wn, mail, words_non_spam_prob, "den")
        r  == ScaleBy(ScaleBy(BigOfNat(prior_non_spam.num * prior_spam.den),
                              wn, mail, words_non_spam_prob, "num"),
                      ws, mail, words_spam_prob, "den")
    IN  ScoreGreater(l, r)

PredictWith(mail, m) ==
    predict(mail, m.prior_spam, m.prior_non_spam, m.words_spam_prob,
            m.words_non_spam_prob)

(***************************************************************************)
(* SpecModel: train called on one fold, then predict on one e-mail.        *)
(* The folds are every multiset of at most MaxFoldRows rows with feature   *)
(* values 0..MaxVal (train sums the rows, so their order is immaterial),   *)
(* and the ten-row folds of k rows [5,5] labelled spam and 10-k rows [1,1] *)
(* labelled non-spam.                                                      *)
(***************************************************************************)
ToyFold(k) ==
    MakeData(Columns,
             [r \in 1..10 |-> IF r <= k THEN [w1 |-> 5, w2 |-> 5, spam |-> 1]
                                        ELSE [w1 |-> 1, w2 |-> 1, spam |-> 0]])

ToyFolds == {ToyFold(k) : k \in 0..10}

FoldInputs ==
    {MakeData(Columns, s) : s \in UNION {SortedRows(n) : n \in 0..MaxFoldRows}}
        \cup ToyFolds

\* .09 (line 129) and 1 (add-one smoothing)
Alphas == {Alpha, [num |-> 1, den |-> 1]}

\* e-mails over the vocabulary, the two held-out rows [6,6] and [0,1], and
\* e-mails holding a word "w3" that no fold has
Emails ==
    [w1 : 0..MaxVal, w2 : 0..MaxVal]
        \cup {[w1 |-> 6, w2 |-> 6], [w1 |-> 0, w2 |-> 1]}
        \cup [w1 : 0..MaxVal, w2 : 0..MaxVal, w3 : 1..2]

InitModel ==
    /\ pc = "fold"
    /\ error = "none"
    /\ data = NoData
    /\ threshold = [num |-> 76, den |-> 125]
    /\ filtered = NoData
    /\ refiltered = NoData
    /\ laplace_alpha \in Alphas
    /\ training_data \in FoldInputs
    /\ testing_data = NoData
    /\ fold_size = 0
    /\ folds = <<>>
    /\ starting_i = 0
    /\ i = 0
    /\ model = NoModel
    /\ email = <<>>
    /\ prediction = FALSE
    /\ output = <<>>

\* train(fold, laplace_alpha)
CallTrain ==
    /\ pc = "fold"
    /\ model' = train(training_data, laplace_alpha)
    /\ error' = model'.error
    /\ pc' = IF model'.error = "none" THEN "trained" ELSE "raised"
    /\ UNCHANGED <<data, threshold, filtered, refiltered, laplace_alpha, training_data,
                   testing_data, fold_size, folds, starting_i, i, email, prediction,
                   output>>

\* predict(email, *model)
CallPredict ==
    /\ pc = "trained"
    /\ \E e \in Emails :
           /\ email' = e
           /\ prediction' = PredictWith(e, model)
    /\ pc' = "predicted"
    /\ UNCHANGED <<error, data, threshold, filtered, refiltered, laplace_alpha,
                   training_data, testing_data, fold_size, folds, starting_i, i, model,
                   output>>

NextModel == CallTrain \/ CallPredict

SpecModel == InitModel /\ [][NextModel]_vars

(***************************************************************************)
(* Claims about train and predict, checked under SpecModel.                *)
(***************************************************************************)
Labels(df) == {df.rows[k]["spam"] : k \in 1..DfLen(df)}

\* a fold train can be fitted on: it has rows of both classes
ValidFold(df) == {0, 1} \subseteq Labels(df)

\* C2: train on a fold that is empty or holds one class only fails with an
\* error; the parameters it returns never hold a prior of zero.
C2_InvalidFoldRejected ==
    pc # "fold" =>
        /\ ~ValidFold(training_data) => model.error # "none"
        /\ model.error = "none" =>
               (model.prior_spam.num > 0 /\ model.prior_non_spam.num > 0)

InUnitInterval(p) == 0 < p.num /\ p.num <= p.den

\* C4: every conditional probability train returns is > 0 and <= 1.
C4_ProbabilitiesInUnitInterval ==
    (pc # "fold" /\ model.error = "none") =>
        \A f \in DOMAIN model.words_spam_prob :
            /\ InUnitInterval(model.words_spam_prob[f])
            /\ InUnitInterval(model.words_non_spam_prob[f])

\* a feature that no spam row of the fold has (its class sum is zero)
C4_Witness ==
    /\ pc = "trained"
    /\ 1 \in Labels(training_data)
    /\ \E f \in DOMAIN model.words_spam_prob :
           /\ ColumnSum(WhereEq(training_data, "spam", 1), f) = 0
           /\ model.words_spam_prob[f].num = laplace_alpha.num
    /\ \E f \in DOMAIN model.words_spam_prob :
           ColumnSum(WhereEq(training_data, "spam", 1), f) > 0

\* the e-mail without the words the model does not hold
Known(mail, m) == [w \in DOMAIN mail \cap DOMAIN m.words_spam_prob |-> mail[w]]

\* the decision rule of predict, in its consequences: words the model does
\* not hold change nothing; a class of prior 0 (log 0 = -inf) never wins,
\* and loses to one of prior > 0; equal priors and equal mappings (equal
\* scores) give non-spam
DecisionRule ==
    /\ prediction = PredictWith(Known(email, model), model)
    /\ model.prior_spam.num = 0 => ~prediction
    /\ (model.prior_non_spam.num = 0 /\ model.prior_spam.num > 0) => prediction
    /\ (/\ model.prior_spam = model.prior_non_spam
        /\ model.words_spam_prob = model.words_non_spam_prob) => ~prediction

IsToy == training_data \in ToyFolds /\ ValidFold(training_data) /\ laplace_alpha = Alpha

\* C8 as stated: the decision rule, and the model trained with alpha 0.09 on
\* the ten rows, spam [5,5] and non-spam [1,1], says spam for [6,6] and
\* non-spam for [0,1].
C8_Original ==
    pc = "predicted" =>
        /\ DecisionRule
        /\ IsToy => /\ email = [w1 |-> 6, w2 |-> 6] => prediction
                    /\ email = [w1 |-> 0, w2 |-> 1] => ~prediction

\* C8, amended: the decision rule; on the ten rows both classes give every
\* word the probability 1/2, so the e-mail does not matter: [6,6] and [0,1]
\* are both spam when more than five rows are spam, and both non-spam
\* otherwise (with five spam rows the scores are equal).
C8_DecisionRule ==
    pc = "predicted" =>
        /\ DecisionRule
        /\ IsToy =>
               /\ \A f \in {"w1", "w2"} :
                      /\ 2 * model.words_spam_prob[f].num = model.words_spam_prob[f].den
                      /\ 2 * model.words_non_spam_prob[f].num
                             = model.words_non_spam_prob[f].den
               /\ prediction <=> DfLen(WhereEq(training_data, "spam", 1)) > 5

C8_Witness ==
    /\ pc = "predicted"
    /\ training_data = ToyFold(5)
    /\ laplace_alpha = Alpha
    /\ email = [w1 |-> 6, w2 |-> 6]
    /\ ~prediction

(***************************************************************************)
(* test (lines 60-97).  The result is a set of records, one per outcome:   *)
(* error is "none" and the four returned values follow, or error names the *)
(* exception raised.  A metric is a fraction [num, den]; NaN is 0/0.       *)
(***************************************************************************)
\* row.drop('spam').to_dict()
EmailOf(row) == [c \in DOMAIN row \ {"spam"} |-> row[c]]

\* the loop of lines 70-77: predictions, one per row in order
RECURSIVE PredictRows(_, _)
PredictRows(rows, m) ==
    IF rows = <<>> THEN <<>>
    ELSE <<PredictWith(EmailOf(Head(rows)), m)>> \o PredictRows(Tail(rows), m)

Predictions(test_data, m) == PredictRows(test_data.rows, m)

SpamLabels(test_data) == [k \in 1..DfLen(test_data) |-> test_data.rows[k]["spam"]]

\* prediction == spam_label, a bool compared with 0 or 1
PredictionIsLabel(p, l) == (p /\ l = 1) \/ (~p /\ l = 0)

CorrectPositiveOnly(predictions, spam_labels) ==
    Cardinality({k \in DOMAIN predictions :
                   PredictionIsLabel(predictions[k], spam_labels[k]) /\ predictions[k]})

\* correct (lines 80-81)
Correct(predictions, spam_labels) ==
    Cardinality({k \in DOMAIN predictions :
                   PredictionIsLabel(predictions[k], spam_labels[k])})

\* true_positive (lines 83-84)
TruePositive(predictions, spam_labels) ==
    Cardinality({k \in DOMAIN predictions :
                   PredictionIsLabel(predictions[k], spam_labels[k]) /\ predictions[k]})

\* false_positive (lines 85-88)
FalsePositive(predictions, spam_labels) ==
    Cardinality({k \in DOMAIN predictions :
                   ~PredictionIsLabel(predictions[k], spam_labels[k]) /\ predictions[k]})

\* sklearn.metrics.roc_auc_score(spam_labels, predictions) on 0/1 labels and
\* hard predictions.  With both classes among the labels the ROC curve has
\* the points (0,0), (fpr,tpr), (1,1) and the area is (tpr + 1 - fpr) / 2.
\* With one class only the score is undefined: scikit-learn raises
\* ValueError, or (later releases) warns and returns NaN.  With no sample it
\* raises ValueError.
roc_auc_score(spam_labels, predictions) ==
    LET pos == Cardinality({k \in DOMAIN spam_labels : spam_labels[k] = 1})
        neg == Cardinality({k \in DOMAIN spam_labels : spam_labels[k] = 0})
        tp  == Cardinality({k \in DOMAIN spam_labels :
                              spam_labels[k] = 1 /\ predictions[k]})
        tn  == Cardinality({k \in DOMAIN spam_labels :
                              spam_labels[k] = 0 /\ ~predictions[k]})
    IN  IF Len(spam_labels) = 0 THEN {[error |-> "ValueError"]}
        ELSE IF pos = 0 \/ neg = 0
        THEN {[error |-> "ValueError"],
              [error |-> "none", auc |-> [num |-> 0, den |-> 0]]}
        ELSE {[error |-> "none",
               auc   |-> [num |-> tp * neg + tn * pos, den |-> 2 * pos * neg]]}

test(test_data, m) ==
    LET total       == DfLen(test_data)
        predictions == Predictions(test_data, m)
        spam_labels == SpamLabels(test_data)
    IN  {IF a.error # "none" THEN [error |-> a.error]
         ELSE IF total = 0 THEN [error |-> "ZeroDivisionError"]
         ELSE [error   |-> "none",
               acc     |-> [num |-> Correct(predictions, spam_labels), den |-> total],
               fp_rate |-> [num |-> FalsePositive(predictions, spam_labels),
                            den |-> total],
               tp_rate |-> [num |-> TruePositive(predictions, spam_labels),
                            den |-> total],
               auc     |-> a.auc] :
           a \in roc_auc_score(spam_labels, predictions)}

(***************************************************************************)
(* SpecDriver: the script from line 131 on.  data is the shuffled          *)
(* DataFrame (index reset to 0..n-1) of at most MaxRows rows, each a spam  *)
(* row (w1 twice) or a non-spam row (w2 once).  An exception that nothing  *)
(* catches ends the script: pc = "crashed".                                *)
(***************************************************************************)
\* the 5 of fold_size = len(training_data) // 5 and of both loops
NumFolds == 5

DriverRows == {[w1 |-> 2, w2 |-> 0, spam |-> 1], [w1 |-> 0, w2 |-> 1, spam |-> 0]}

DriverInputs ==
    {MakeData(Columns, s) : s \in UNION {[1..n -> DriverRows] : n \in 0..MaxRows}}

\* int(0.8 * len(data))
train_size(df) == (8 * DfLen(df)) \div 10

InitDriver ==
    /\ pc = "split"
    /\ error = "none"
    /\ data \in DriverInputs
    /\ threshold = [num |-> 76, den |-> 125]
    /\ filtered = NoData
    /\ refiltered = NoData
    /\ laplace_alpha = Alpha
    /\ training_data = NoData
    /\ testing_data = NoData
    /\ fold_size = 0
    /\ folds = <<>>
    /\ starting_i = 0
    /\ i = 0
    /\ model = NoModel
    /\ email = <<>>
    /\ prediction = FALSE
    /\ output = <<>>

\* lines 131-139: the split, fold_size, folds = [], starting_i = 0
Split ==
    /\ pc = "split"
    /\ training_data' = Slice(data, 0, train_size(data))
    /\ testing_data' = Slice(data, train_size(data), DfLen(data))
    /\ fold_size' = DfLen(training_data') \div NumFolds
    /\ folds' = <<>>
    /\ starting_i' = 0
    /\ i' = 0
    /\ pc' = "build"
    /\ UNCHANGED <<error, data, threshold, filtered, refiltered, laplace_alpha, model,
                   email, prediction, output>>

\* ending_i = min(starting_i + fold_size, len(training_data))
ending_i(start, size, n) == Min(start + size, n)

\* lines 142-150: one iteration of the loop that builds the folds
BuildFold ==
    /\ pc = "build"
    /\ LET e == ending_i(starting_i, fold_size, DfLen(training_data))
       IN  /\ folds' = Append(folds, Slice(training_data, starting_i, e))
           /\ starting_i' = e
    /\ i' = IF i + 1 < NumFolds THEN i + 1 ELSE 0
    /\ pc' = IF i + 1 < NumFolds THEN "build" ELSE "train"
    /\ UNCHANGED <<error, data, threshold, filtered, refiltered, laplace_alpha,
                   training_data, testing_data, fold_size, model, email, prediction,
                   output>>

FirstFold(fs, k) == fs[1]

\* folds[i]
FoldOf(fs, k) == fs[k + 1]

\* line 155: train on fold i
TrainFold ==
    /\ pc = "train"
    /\ LET m == train(FoldOf(folds, i), laplace_alpha)
       IN  IF m.error # "none"
           THEN /\ pc' = "crashed"
                /\ error' = m.error
                /\ UNCHANGED model
           ELSE /\ pc' = "test"
                /\ model' = m
                /\ UNCHANGED error
    /\ UNCHANGED <<data, threshold, filtered, refiltered, laplace_alpha, training_data,
                   testing_data, fold_size, folds, starting_i, i, email, prediction,
                   output>>

\* lines 157-164: evaluate against the test set and print the four metrics
TestFold ==
    /\ pc = "test"
    /\ \E r \in test(testing_data, model) :
           IF r.error # "none"
           THEN /\ pc' = "crashed"
                /\ error' = r.error
                /\ UNCHANGED <<i, output>>
           ELSE /\ output' = Append(output, [fold |-> i, acc |-> r.acc,
                                             fp_rate |-> r.fp_rate,
                                             tp_rate |-> r.tp_rate, auc |-> r.auc])
                /\ i' = i + 1
                /\ pc' = IF i + 1 < NumFolds THEN "train" ELSE "done"
                /\ UNCHANGED error
    /\ UNCHANGED <<data, threshold, filtered, refiltered, laplace_alpha, training_data,
                   testing_data, fold_size, folds, starting_i, model, email, prediction>>

NextDriver == Split \/ BuildFold \/ TrainFold \/ TestFold

SpecDriver == InitDriver /\ [][NextDriver]_vars

(***************************************************************************)
(* Claims about the folds, the evaluator and the driver loop, checked      *)
(* under SpecDriver.                                                       *)
(***************************************************************************)
RECURSIVE Concat(_)
Concat(ss) == IF ss = <<>> THEN <<>> ELSE Head(ss) \o Concat(Tail(ss))

FoldsBuilt == pc \in {"train", "test", "done", "crashed"}

\* C1: the five folds are contiguous slices that partition the training set:
\* the first four have floor(n/5) rows, the last one the rest, and their
\* concatenation in index order is the training set.
C1_FoldsPartition ==
    FoldsBuilt =>
        LET n == DfLen(training_data)
        IN  /\ Len(folds) = NumFolds
            /\ \A k \in 1..(NumFolds - 1) : DfLen(folds[k]) = n \div NumFolds
            /\ DfLen(folds[NumFolds]) = (n \div NumFolds) + (n % NumFolds)
            /\ SumSeq([k \in 1..NumFolds |-> DfLen(folds[k])]) = n
            /\ Concat([k \in 1..NumFolds |-> folds[k].rows]) = training_data.rows
            /\ Concat([k \in 1..NumFolds |-> folds[k].index]) = training_data.index

Reported(j) == \E k \in DOMAIN output : output[k].fold = j

\* C3: when the script has stopped on an error raised in fold i, every other
\* fold that is valid (rows of both classes) has been trained on, evaluated
\* and reported.  (A stopped script takes no further step, so what it has
\* not printed by then it never prints.)
C3_ErrorAbortsOnlyThatFold ==
    pc = "crashed" =>
        \A j \in 0..(NumFolds - 1) :
            (j # i /\ ValidFold(folds[j + 1])) => Reported(j)

\* test has just been called with the current model: it returned (its
\* report is the last one printed) or it raised
TestReturned == pc \in {"train", "done"} /\ output # <<>>
TestRaised == pc = "crashed" /\ error = "ValueError"

LastReport == output[Len(output)]

PerfectOnTestSet ==
    /\ DfLen(testing_data) > 0
    /\ \A k \in 1..DfLen(testing_data) :
           PredictionIsLabel(PredictWith(EmailOf(testing_data.rows[k]), model),
                             testing_data.rows[k]["spam"])

IsOne(q) == q.den > 0 /\ q.num = q.den
IsZero(q) == q.den > 0 /\ q.num = 0

\* C7 as stated: on a non-empty test set where every prediction is the
\* label, test returns accuracy 1, false-positive rate 0 and AUC 1.
C7_Original ==
    ((TestReturned \/ TestRaised) /\ PerfectOnTestSet) =>
        /\ TestReturned
        /\ IsOne(LastReport.acc)
        /\ IsZero(LastReport.fp_rate)
        /\ IsOne(LastReport.auc)

\* C7, amended: on a test set that holds both classes and where every
\* prediction is the label, test returns accuracy 1, false-positive rate 0
\* and AUC 1.  (With one class only, roc_auc_score raises or gives NaN.)
C7_PerfectMetrics ==
    ((TestReturned \/ TestRaised) /\ PerfectOnTestSet /\ ValidFold(testing_data)) =>
        /\ TestReturned
        /\ IsOne(LastReport.acc)
        /\ IsZero(LastReport.fp_rate)
        /\ IsOne(LastReport.auc)

C7_Witness ==
    /\ TestReturned
    /\ PerfectOnTestSet
    /\ ValidFold(testing_data)
    /\ IsOne(LastReport.acc)

ReportOf(k, r) ==
    [fold |-> k, acc |-> r.acc, fp_rate |-> r.fp_rate, tp_rate |-> r.tp_rate,
     auc |-> r.auc]

\* C9: every step of the driver keeps the test set and the folds as they
\* were built; fold i's model is train(folds[i]); the report printed for
\* fold i is made of what test returns for the one test set and that model,
\* and is appended to those of folds 0..i-1, which stay as printed; a run
\* that ends normally has printed five reports, one per fold in index order.
C9_FreshModelPerFold ==
    [][/\ pc # "split" => testing_data' = testing_data
       /\ pc \notin {"split", "build"} => folds' = folds
       /\ pc # "test" => output' = output
       /\ (pc = "train" /\ pc' = "test") =>
              model' = train(folds[i + 1], laplace_alpha)
       /\ (pc = "test" /\ pc' # "crashed") =>
              /\ Len(output) = i
              /\ \E r \in test(testing_data, train(folds[i + 1], laplace_alpha)) :
                     r.error = "none" /\ output' = Append(output, ReportOf(i, r))
       /\ pc' = "done" =>
              /\ Len(output') = NumFolds
              /\ \A k \in 1..NumFolds : output'[k].fold = k - 1]_vars

\* a finished run whose folds gave two different models and two different
\* reports
C9_Witness ==
    /\ pc = "done"
    /\ Len(output) = NumFolds
    /\ \E j, k \in 1..NumFolds :
           /\ train(folds[j], laplace_alpha) # train(folds[k], laplace_alpha)
           /\ output[j].acc # output[k].acc
====
